---- MODULE Spec2Model ----
(***************************************************************************)
(* The strided n-dimensional array of the tutorial "Why are some things    *)
(* fast, and other things slow?" (fast_vs_slow notebook): the ravel        *)
(* exercise, the ndarray as a flat buffer read through shape and strides,  *)
(* the hand-written transpose that flips the strides, and ndarray.reshape  *)
(* which returns a view when the layout allows it and copies otherwise.    *)
(*                                                                         *)
(* An index and a shape are sequences; position i of the sequence is axis  *)
(* i-1 of the array, the index values themselves are 0-based as in Python. *)
(* A buffer is the sequence of its elements; byte address b of a buffer is *)
(* element b \div ItemSize (position b \div ItemSize + 1 of the sequence). *)
(***************************************************************************)
EXTENDS Integers, Sequences, FiniteSets, TLC

VARIABLES bufs, views, prov, last, nwrites, out

vars == <<bufs, views, prov, last, nwrites, out>>

(* ----------------------------- bounds --------------------------------- *)

\* most elements an allocated array holds
MaxElems == 6
\* most axes of a shape handed to an operation
MaxRank == 2
\* most views alive at once
MaxViews == 3
\* most buffers alive at once
MaxBufs == 2
\* largest step of a slice
MaxStep == 2
\* most element writes in a run
MaxWrites == 1
\* largest n_rows / n_cols of the small ravel calls
MaxDim == 4
\* largest stride, in elements and in either direction, handed to as_strided
MaxStride == 5
\* most columns of a shape handed to as_strided
MaxCols == 3
\* most as_strided calls in a run
MaxStrided == 1

(* ------------------------- program constants -------------------------- *)

\* "Each one of those bad boys takes up 8 bytes"
ItemSize == 8

(* --------------------------- Python values ---------------------------- *)

\* The value of a call: an int, None, or a raised exception.
PyInt(n) == [kind |-> "int", int |-> n, seq |-> <<>>]
PyTuple(s) == [kind |-> "tuple", int |-> 0, seq |-> s]
PyNone == [kind |-> "None", int |-> 0, seq |-> <<>>]
PyRaise(e) == [kind |-> e, int |-> 0, seq |-> <<>>]

(* ------------------------------ helpers ------------------------------- *)

RECURSIVE Prod(_)
Prod(s) == IF s = <<>> THEN 1 ELSE Head(s) * Prod(Tail(s))

RECURSIVE Dot(_, _)
Dot(s, t) == IF s = <<>> THEN 0 ELSE Head(s) * Head(t) + Dot(Tail(s), Tail(t))

Reverse(s) == [i \in 1..Len(s) |-> s[Len(s) + 1 - i]]

\* s[i+1:] and s[:i] of Python, for the 1-based position i
After(s, i) == SubSeq(s, i + 1, Len(s))
Before(s, i) == SubSeq(s, 1, i - 1)

\* every shape of rank 1..r with positive dimensions and at most n elements
ShapesOf(r, n) ==
  UNION {{s \in [1..k -> 1..n] : Prod(s) <= n} : k \in 1..r}

Shapes == ShapesOf(MaxRank, MaxElems)

\* every valid multi-index of a shape
RECURSIVE Indices(_)
Indices(shape) ==
  IF shape = <<>> THEN {<<>>}
  ELSE {<<i>> \o rest : i \in 0..Head(shape) - 1, rest \in Indices(Tail(shape))}

(* ------------------------------- ravel -------------------------------- *)

\* def ravel(row_index, col_index, n_rows, n_cols): the body is the bare
\* statement "return  # Do the computation here", which returns None.
ravel(row_index, col_index, n_rows, n_cols) == PyNone

\* unravel(flat_index, shape): successive division/modulo against the
\* trailing-dimension products, most-significant dimension first.  A
\* flat_index that is no int cannot be divided (TypeError); one outside
\* [0, product(shape)) is OutOfBounds.
unravel(flat_index, shape) ==
  IF flat_index.kind # "int" THEN PyRaise("TypeError")
  ELSE IF flat_index.int < 0 \/ flat_index.int >= Prod(shape)
    THEN PyRaise("OutOfBounds")
  ELSE PyTuple([i \in 1..Len(shape) |->
         (flat_index.int \div Prod(After(shape, i))) % shape[i]])

\* the arguments of the five assert statements under the ravel exercise
RavelTests ==
  { <<2, 3, 4, 4>>, <<2, 3, 4, 8>>, <<0, 0, 1, 1>>, <<3, 3, 4, 4>>,
    <<3465, 18923, 10000, 20000>> }

\* the value each assert statement compares the call with
RavelExpected(t) ==
  CASE t = <<2, 3, 4, 4>> -> 11
    [] t = <<2, 3, 4, 8>> -> 19
    [] t = <<0, 0, 1, 1>> -> 0
    [] t = <<3, 3, 4, 4>> -> 15
    [] t = <<3465, 18923, 10000, 20000>> -> 69318923

\* in-range calls: <<row_index, col_index, n_rows, n_cols>>
RavelInputs ==
  RavelTests \cup
  {t \in (0..MaxDim) \X (0..MaxDim) \X (1..MaxDim) \X (1..MaxDim) :
     t[1] < t[3] /\ t[2] < t[4]}

NoCall == [fn |-> "none", args |-> <<>>, val |-> PyNone]

\* index = ravel(row_index, col_index, n_rows=..., n_cols=...)
CallRavel ==
  /\ \E t \in RavelInputs :
       out' = [fn |-> "ravel", args |-> t,
               val |-> ravel(t[1], t[2], t[3], t[4])]
  /\ UNCHANGED <<bufs, views, prov, last, nwrites>>

\* unravel(ravel(multi_index, shape), shape)
CallRoundTrip ==
  /\ \E t \in RavelInputs :
       out' = [fn |-> "roundtrip", args |-> t,
               val |-> unravel(ravel(t[1], t[2], t[3], t[4]), <<t[3], t[4]>>)]
  /\ UNCHANGED <<bufs, views, prov, last, nwrites>>

(* ------------------------------ ndarray ------------------------------- *)

\* A view: the buffer it reads, its shape, its strides in bytes, the byte
\* offset of its first element and the size in bytes of an element (the
\* ndarray of "The ndarray exposed").
View(buf, shape, strides, offset, itemsize) ==
  [buf |-> buf, shape |-> shape, strides |-> strides, offset |-> offset,
   itemsize |-> itemsize]

\* strides that lay the array out column by column
CStrides_column_major(shape, itemsize) ==
  [i \in 1..Len(shape) |-> itemsize * Prod(Before(shape, i))]

\* a.strides of a freshly created array: "to get to the next row in this
\* matrix, we have to skip ahead 64 bytes ... to the next column 8 bytes"
CStrides(shape, itemsize) ==
  [i \in 1..Len(shape) |-> itemsize * Prod(After(shape, i))]

\* the byte address of a[idx]: each index is multiplied by the stride of its
\* axis ("the number of bytes we have to skip over to get to the next
\* element along that dimension")
Address(v, idx) == v.offset + Dot(idx, v.strides)

\* what a read outside every buffer is taken to give
Garbage == 0 - 1

\* a[idx], read from the buffers bs
Elem(bs, v, idx) ==
  LET k == Address(v, idx) \div v.itemsize + 1
  IN IF v.buf \in 1..Len(bs) /\ k \in 1..Len(bs[v.buf])
     THEN bs[v.buf][k] ELSE Garbage

\* the k-th multi-index (k from 0) in column-by-column order over a shape
CIndex_column_major(k, shape) ==
  [i \in 1..Len(shape) |-> (k \div Prod(Before(shape, i))) % shape[i]]

\* the k-th multi-index (k from 0) in row-by-row order over a shape
CIndex(k, shape) ==
  [i \in 1..Len(shape) |-> (k \div Prod(After(shape, i))) % shape[i]]

\* the elements of a view in row-by-row order of its logical array
Traverse(bs, v) ==
  [k \in 1..Prod(v.shape) |-> Elem(bs, v, CIndex(k - 1, v.shape))]

\* a.flags['C_CONTIGUOUS']: axes of length 1 are not looked at
C_CONTIGUOUS(v) ==
  \A i \in 1..Len(v.shape) :
    v.shape[i] = 1 \/ v.strides[i] = v.itemsize * Prod(After(v.shape, i))

\* an F_CONTIGUOUS that walks the axes in the order C_CONTIGUOUS does
F_CONTIGUOUS_walks_rows(v) == C_CONTIGUOUS(v)

\* a.flags['F_CONTIGUOUS']
F_CONTIGUOUS(v) ==
  \A i \in 1..Len(v.shape) :
    v.shape[i] = 1 \/ v.strides[i] = v.itemsize * Prod(Before(v.shape, i))

\* an as_strided that lays the shape out row by row whatever strides it is
\* given
as_strided_row_major(a, shape, strides) ==
  View(a.buf, shape, CStrides(shape, a.itemsize), a.offset, a.itemsize)

\* as_strided(a, shape=..., strides=...): the same memory, read through
\* the given shape and strides
as_strided(a, shape, strides) ==
  View(a.buf, shape, strides, a.offset, a.itemsize)

\* a transpose that flips the shape and forgets to flip the strides
transpose_shape_only(a) ==
  as_strided(a, Reverse(a.shape), a.strides)

\* a transpose that flips the strides and forgets to flip the shape
transpose_strides_only(a) ==
  as_strided(a, a.shape, Reverse(a.strides))

\* def transpose(a):
\*     return as_strided(a, shape=a.shape[::-1], strides=a.strides[::-1])
transpose(a) ==
  as_strided(a, Reverse(a.shape), Reverse(a.strides))

\* idx lies inside the shape: 0 <= idx[i] < shape[i] on every axis
InRange(idx, shape) ==
  \A i \in 1..Len(shape) : 0 <= idx[i] /\ idx[i] < shape[i]

\* a[idx] with one integer per axis (assert a[0, 23890493] == 1.): the
\* address of the element.  An index i of an axis of length n with
\* -n <= i < 0 counts from the end of the axis (it stands for i + n); an
\* index outside [-n, n) raises (index ... is out of bounds for axis ...).
index(v, idx) ==
  IF \E i \in 1..Len(v.shape) :
       idx[i] < 0 - v.shape[i] \/ idx[i] >= v.shape[i]
  THEN PyRaise("OutOfBounds")
  ELSE PyInt(Address(v, [i \in 1..Len(v.shape) |->
                          IF idx[i] < 0 THEN idx[i] + v.shape[i] ELSE idx[i]]))

\* element_size * flat_index, for the value flat_index of a ravel call: None
\* cannot be multiplied into an address
TimesItemSize(itemsize, flat_index) ==
  IF flat_index.kind = "int" THEN PyInt(itemsize * flat_index.int)
  ELSE IF flat_index.kind = "None" THEN PyRaise("TypeError")
  ELSE flat_index

(* ------------------------------ reshape ------------------------------- *)

\* the positions of the axes whose length is not 1
RECURSIVE KeepAxes(_, _)
KeepAxes(shape, i) ==
  IF i > Len(shape) THEN <<>>
  ELSE (IF shape[i] = 1 THEN <<>> ELSE <<i>>) \o KeepAxes(shape, i + 1)

\* The next group of old axes od[oi..oj] and new axes nd[ni..nj] holding the
\* same number of elements: whichever side is smaller takes its next axis.
RECURSIVE FindGroup(_, _, _, _, _, _)
FindGroup(od, nd, oj, nj, op, np) ==
  IF np = op THEN <<oj, nj>>
  ELSE IF np < op
    THEN FindGroup(od, nd, oj, nj + 1, op, np * nd[nj + 1])
    ELSE FindGroup(od, nd, oj + 1, nj, op * od[oj + 1], np)

\* The strides that read the old axes (od, os) in row-by-row order through
\* the new shape nd without moving data, when there are any: the old axes of
\* a group must lie in memory as one row-by-row block; the new axes of the
\* group split that block; trailing new axes of length 1 repeat the last
\* stride.
RECURSIVE AttemptNoCopy(_, _, _, _, _, _, _)
AttemptNoCopy(od, os, nd, oi, ni, acc, itemsize) ==
  IF ni > Len(nd) \/ oi > Len(od)
  THEN [ok |-> TRUE,
        strides |-> acc \o [k \in 1..(Len(nd) - ni + 1) |->
                              IF ni > 1 THEN acc[ni - 1] ELSE itemsize]]
  ELSE LET g == FindGroup(od, nd, oi, ni, od[oi], nd[ni])
           oj == g[1]
           nj == g[2]
       IN IF \E k \in oi..oj - 1 : os[k] # od[k + 1] * os[k + 1]
          THEN [ok |-> FALSE, strides |-> <<>>]
          ELSE AttemptNoCopy(od, os, nd, oj + 1, nj + 1,
                 acc \o [k \in 1..(nj - ni + 1) |->
                           os[oj] * Prod(SubSeq(nd, ni + k, nj))],
                 itemsize)

NoCopyStrides(a, newshape) ==
  LET keep == KeepAxes(a.shape, 1)
      od == [k \in 1..Len(keep) |-> a.shape[keep[k]]]
      os == [k \in 1..Len(keep) |-> a.strides[keep[k]]]
  IN AttemptNoCopy(od, os, newshape, 1, 1, <<>>, a.itemsize)

\* a reshape that never copies: it reads the old buffer through the
\* row-by-row strides of the new shape whatever the layout
reshape_never_copies(bs, a, newshape) ==
  IF Prod(newshape) # Prod(a.shape)
  THEN [err |-> "ShapeMismatch", view |-> a, data |-> <<>>]
  ELSE [err |-> "", view |-> View(a.buf, newshape, CStrides(newshape, a.itemsize), a.offset, a.itemsize),
        data |-> <<>>]

\* a reshape that does not compare the number of elements of the two shapes
reshape_unchecked(bs, a, newshape) ==
  [err |-> "", view |-> View(a.buf, newshape, CStrides(newshape, a.itemsize), a.offset, a.itemsize),
   data |-> <<>>]

\* a reshape that lays out the new view column by column
reshape_f_strides(bs, a, newshape) ==
  IF Prod(newshape) # Prod(a.shape)
  THEN [err |-> "ShapeMismatch", view |-> a, data |-> <<>>]
  ELSE IF C_CONTIGUOUS(a)
    THEN [err |-> "", view |-> View(a.buf, newshape, CStrides_column_major(newshape, a.itemsize), a.offset, a.itemsize),
          data |-> <<>>]
  ELSE [err |-> "", view |-> View(0, newshape, CStrides_column_major(newshape, a.itemsize), 0, a.itemsize),
        data |-> Traverse(bs, a)]

\* a.reshape(newshape): "NumPy will avoid copying memory whenever it can.
\* Whether it can depends on what kind of layout the data is currently in."
\* The result is a view of a's buffer when a's layout allows it; otherwise
\* the data is copied, row by row of a's logical array, into a new buffer
\* (data; the view's buf is filled in by the caller).  A newshape with
\* another number of elements raises (cannot reshape array of size ...).
reshape(bs, a, newshape) ==
  IF Prod(newshape) # Prod(a.shape)
  THEN [err |-> "ShapeMismatch", view |-> a, data |-> <<>>]
  ELSE IF newshape = a.shape
    THEN [err |-> "", view |-> a, data |-> <<>>]
  ELSE IF C_CONTIGUOUS(a)
    THEN [err |-> "", view |-> View(a.buf, newshape, CStrides(newshape, a.itemsize), a.offset, a.itemsize),
          data |-> <<>>]
  ELSE LET nc == NoCopyStrides(a, newshape)
       IN IF nc.ok
          THEN [err |-> "", view |-> View(a.buf, newshape, nc.strides, a.offset, a.itemsize),
                data |-> <<>>]
          ELSE [err |-> "", view |-> View(0, newshape, CStrides(newshape, a.itemsize), 0, a.itemsize),
                data |-> Traverse(bs, a)]

(* ------------------------- slice, materialize -------------------------- *)

\* the ranges <<start, stop, step>> over one axis of length n
AxisRanges(n) ==
  {<<start, stop, step>> : start \in 0..n - 1, stop \in 1..n, step \in 1..MaxStep}
    \cap {r \in (0..n) \X (0..n) \X (1..MaxStep) : r[1] < r[2]}

RECURSIVE Ranges(_)
Ranges(shape) ==
  IF shape = <<>> THEN {<<>>}
  ELSE {<<r>> \o rest : r \in AxisRanges(Head(shape)), rest \in Ranges(Tail(shape))}

\* slice(view, ranges): shape[i] = ceil((stop - start) / step),
\* strides[i] = view.strides[i] * step,
\* byte_offset = view.byte_offset + sum(start[i] * view.strides[i])
slice(v, ranges) ==
  View(v.buf,
       [i \in 1..Len(v.shape) |->
          (ranges[i][2] - ranges[i][1] + ranges[i][3] - 1) \div ranges[i][3]],
       [i \in 1..Len(v.shape) |-> v.strides[i] * ranges[i][3]],
       v.offset + Dot([i \in 1..Len(v.shape) |-> ranges[i][1]], v.strides),
       v.itemsize)

\* materialize(view): a fresh row-major buffer holding every element of the
\* view (data; the view's buf is filled in by the caller)
materialize(bs, v) ==
  [view |-> View(0, v.shape, CStrides(v.shape, v.itemsize), 0, v.itemsize),
   data |-> Traverse(bs, v)]

(* ------------------------------ the run -------------------------------- *)

\* every ordering of the axes 0..n-1
Perms(n) ==
  {p \in [1..n -> 0..n - 1] : \A i, j \in 1..n : p[i] = p[j] => i = j}

\* what a caller passes as an ordering of the axes of an n-axis array: the
\* orderings themselves, and sequences of another length or with a repeated
\* or out-of-range axis
PermArgs(n) == UNION {[1..k -> 0..n] : k \in 1..MaxRank}

\* the values a write stores; no freshly created array holds them
WriteVals == {0}

NoOp == [op |-> "none", src |-> 0, res |-> 0, err |-> "", arg |-> <<>>]

\* how a view came to be: the operation, the view it was applied to and
\* the operation's argument
Origin(op, src, arg) == [op |-> op, src |-> src, arg |-> arg]

\* an exception that nothing catches ends the run of the cells
Running == last.err = ""

Init ==
  /\ bufs = <<>>
  /\ views = <<>>
  /\ prov = <<>>
  /\ last = NoOp
  /\ nwrites = 0
  /\ out = NoCall

\* a = np.array([[1, 2, 3], [4, 5, 6]]) and its like: a new buffer holding
\* 1, 2, ... row by row, read through the row-by-row strides of the shape
Allocate ==
  /\ Running
  /\ Len(views) < MaxViews
  /\ Len(bufs) < MaxBufs
  /\ \E shape \in Shapes :
       /\ bufs' = Append(bufs, [k \in 1..Prod(shape) |-> k])
       /\ views' = Append(views,
                    View(Len(bufs) + 1, shape, CStrides(shape, ItemSize), 0, ItemSize))
       /\ prov' = Append(prov, Origin("allocate", 0, shape))
       /\ last' = [op |-> "allocate", src |-> 0, res |-> Len(views) + 1,
                   err |-> "", arg |-> shape]
  /\ UNCHANGED <<nwrites, out>>

\* b = transpose(a).  The function takes the array and nothing else: a call
\* that also passes an ordering of the axes raises TypeError.
Transpose ==
  /\ Running
  /\ Len(views) < MaxViews
  /\ \E i \in 1..Len(views) :
       \/ /\ views' = Append(views, transpose(views[i]))
          /\ prov' = Append(prov, Origin("transpose", i, <<>>))
          /\ last' = [op |-> "transpose", src |-> i, res |-> Len(views) + 1,
                      err |-> "", arg |-> <<>>]
       \/ /\ \E perm \in PermArgs(Len(views[i].shape)) :
               last' = [op |-> "transpose", src |-> i, res |-> 0,
                        err |-> "TypeError", arg |-> perm]
          /\ UNCHANGED <<views, prov>>
  /\ UNCHANGED <<bufs, nwrites, out>>

\* b = a.reshape(newshape)
Reshape ==
  /\ Running
  /\ Len(views) < MaxViews
  /\ \E i \in 1..Len(views), newshape \in Shapes :
       LET r == reshape(bufs, views[i], newshape)
       IN \/ /\ r.err # ""
             /\ last' = [op |-> "reshape", src |-> i, res |-> 0,
                         err |-> r.err, arg |-> newshape]
             /\ UNCHANGED <<bufs, views, prov>>
          \/ /\ r.err = ""
             /\ r.data = <<>>
             /\ views' = Append(views, r.view)
             /\ prov' = Append(prov, Origin("reshape", i, newshape))
             /\ last' = [op |-> "reshape", src |-> i, res |-> Len(views) + 1,
                         err |-> "", arg |-> newshape]
             /\ UNCHANGED bufs
          \/ /\ r.err = ""
             /\ r.data # <<>>
             /\ Len(bufs) < MaxBufs
             /\ bufs' = Append(bufs, r.data)
             /\ views' = Append(views, [r.view EXCEPT !.buf = Len(bufs) + 1])
             /\ prov' = Append(prov, Origin("reshape", i, newshape))
             /\ last' = [op |-> "reshape", src |-> i, res |-> Len(views) + 1,
                         err |-> "", arg |-> newshape]
  /\ UNCHANGED <<nwrites, out>>

\* b = slice(a, ranges)
Slice ==
  /\ Running
  /\ Len(views) < MaxViews
  /\ \E i \in 1..Len(views) :
       \E ranges \in Ranges(views[i].shape) :
         /\ views' = Append(views, slice(views[i], ranges))
         /\ prov' = Append(prov, Origin("slice", i, ranges))
         /\ last' = [op |-> "slice", src |-> i, res |-> Len(views) + 1,
                     err |-> "", arg |-> ranges]
  /\ UNCHANGED <<bufs, nwrites, out>>

\* b = materialize(a)
Materialize ==
  /\ Running
  /\ Len(views) < MaxViews
  /\ Len(bufs) < MaxBufs
  /\ \E i \in 1..Len(views) :
       LET m == materialize(bufs, views[i])
       IN /\ bufs' = Append(bufs, m.data)
          /\ views' = Append(views, [m.view EXCEPT !.buf = Len(bufs) + 1])
          /\ prov' = Append(prov, Origin("materialize", i, <<>>))
          /\ last' = [op |-> "materialize", src |-> i, res |-> Len(views) + 1,
                      err |-> "", arg |-> <<>>]
  /\ UNCHANGED <<nwrites, out>>

\* a[idx] = val: the element at the address of idx is overwritten
Write ==
  /\ Running
  /\ nwrites < MaxWrites
  /\ \E i \in 1..Len(views) :
       \E idx \in Indices(views[i].shape), val \in WriteVals :
         /\ bufs' = [bufs EXCEPT
                       ![views[i].buf][Address(views[i], idx) \div views[i].itemsize + 1]
                          = val]
         /\ last' = [op |-> "write", src |-> i, res |-> 0, err |-> "",
                     arg |-> <<idx, val>>]
  /\ nwrites' = nwrites + 1
  /\ UNCHANGED <<views, prov, out>>

\* the shapes handed to as_strided: rows by columns
StridedShapes == (1..MaxElems) \X (1..MaxCols)

\* the strides handed to as_strided: whole elements, forwards, backwards or
\* not moving at all
StridedStrides ==
  {<<r * ItemSize, c * ItemSize>> :
     r \in (0 - MaxStride)..MaxStride, c \in (0 - MaxStride)..MaxStride}

\* the placeholder the exercise leaves for the reader to replace
Ellipsis == "..."

\* b = as_strided(a, shape=..., strides=...): with a shape and strides, a
\* view of a's memory read through them, whatever they are; as the exercise
\* is written, with the placeholders, the call raises TypeError
AsStrided ==
  /\ Running
  /\ Len(views) < MaxViews
  /\ Cardinality({k \in 1..Len(prov) : prov[k].op = "as_strided"}) < MaxStrided
  /\ \E i \in 1..Len(views) :
       \/ \E shape \in StridedShapes, strides \in StridedStrides :
            /\ views' = Append(views, as_strided(views[i], shape, strides))
            /\ prov' = Append(prov, Origin("as_strided", i, <<shape, strides>>))
            /\ last' = [op |-> "as_strided", src |-> i, res |-> Len(views) + 1,
                        err |-> "", arg |-> <<shape, strides>>]
       \/ /\ last' = [op |-> "as_strided", src |-> i, res |-> 0,
                      err |-> "TypeError", arg |-> <<Ellipsis, Ellipsis>>]
          /\ UNCHANGED <<views, prov>>
  /\ UNCHANGED <<bufs, nwrites, out>>

\* calls whose row_index or col_index lies outside the matrix:
\* <<row_index, col_index, n_rows, n_cols>>
RavelOutside ==
  {t \in ((0 - 1)..MaxDim) \X ((0 - 1)..MaxDim) \X (1..MaxDim) \X (1..MaxDim) :
     ~InRange(<<t[1], t[2]>>, <<t[3], t[4]>>)}

\* index = ravel(row_index, col_index, n_rows=..., n_cols=...) with an index
\* outside the matrix.  The calls are pure and do not see one another: a run
\* makes one of them.
CallRavelOutside ==
  /\ out = NoCall
  /\ \E t \in RavelOutside :
       out' = [fn |-> "ravel", args |-> t,
               val |-> ravel(t[1], t[2], t[3], t[4])]
  /\ UNCHANGED <<bufs, views, prov, last, nwrites>>

\* unravel(flat_index, shape), inside the shape and just outside it
CallUnravel ==
  /\ out = NoCall
  /\ \E shape \in Shapes, flat_index \in (0 - 1)..(MaxElems + 1) :
       out' = [fn |-> "unravel", args |-> <<flat_index, shape>>,
               val |-> unravel(PyInt(flat_index), shape)]
  /\ UNCHANGED <<bufs, views, prov, last, nwrites>>

\* the integer indices tried on a shape: every axis from one below -n to n
RECURSIVE IndexArgs(_)
IndexArgs(shape) ==
  IF shape = <<>> THEN {<<>>}
  ELSE {<<i>> \o rest : i \in (0 - Head(shape) - 1)..Head(shape),
                        rest \in IndexArgs(Tail(shape))}

\* a[idx]
CallIndex ==
  /\ out = NoCall
  /\ \E i \in 1..Len(views) :
       \E idx \in IndexArgs(views[i].shape) :
         out' = [fn |-> "index", args |-> <<i, idx>>,
                 val |-> index(views[i], idx)]
  /\ UNCHANGED <<bufs, views, prov, last, nwrites>>

Next ==
  \/ Allocate
  \/ Transpose
  \/ Reshape
  \/ Slice
  \/ Materialize

Spec == Init /\ [][Next]_vars

\* the run of one array: a = np.array(...) has been executed, then views of
\* it are taken, copies are made and elements are written
InitAlias ==
  /\ \E shape \in Shapes :
       /\ bufs = <<[k \in 1..Prod(shape) |-> k]>>
       /\ views = <<View(1, shape, CStrides(shape, ItemSize), 0, ItemSize)>>
       /\ prov = <<Origin("allocate", 0, shape)>>
       /\ last = [op |-> "allocate", src |-> 0, res |-> 1, err |-> "",
                  arg |-> shape]
  /\ nwrites = 0
  /\ out = NoCall

NextAlias ==
  \/ Transpose
  \/ Reshape
  \/ Slice
  \/ Materialize
  \/ Write

SpecAlias == InitAlias /\ [][NextAlias]_vars

NextRavel ==
  \/ CallRavel
  \/ CallRoundTrip

SpecRavel == Init /\ [][NextRavel]_vars

\* the arrays the cells create before they call as_strided:
\* np.array([1., 2., 3., 4., 5.]) and its like of every length, and
\* np.array([[1, 2, 3], [4, 5, 6]])
InitStrided ==
  /\ \E shape \in {<<n>> : n \in 1..MaxElems} \cup {<<2, 3>>} :
       /\ bufs = <<[k \in 1..Prod(shape) |-> k]>>
       /\ views = <<View(1, shape, CStrides(shape, ItemSize), 0, ItemSize)>>
       /\ prov = <<Origin("allocate", 0, shape)>>
       /\ last = [op |-> "allocate", src |-> 0, res |-> 1, err |-> "",
                  arg |-> shape]
  /\ nwrites = 0
  /\ out = NoCall

\* the run of one array read through shapes and strides of the caller's
\* choosing, from its first element or from a later one
NextStrided ==
  \/ Slice
  \/ AsStrided

SpecStrided == InitStrided /\ [][NextStrided]_vars

\* the calls that take an index, on one array, with indices inside and
\* outside its shape
NextBounds ==
  \/ CallRavel
  \/ CallRavelOutside
  \/ CallUnravel
  \/ CallIndex

SpecBounds == InitAlias /\ [][NextBounds]_vars

(* ------------------------------- claims -------------------------------- *)

\* the views of the run made by operation op
MadeBy(op) == {k \in 1..Len(views) : prov[k].op = op}

\* the strides of the row-major layout of a shape, written out
RowMajor(v) ==
  \A i \in 1..Len(v.shape) : v.strides[i] = v.itemsize * Prod(After(v.shape, i))

\* the strides of the column-major layout of a shape, written out
ColMajor(v) ==
  \A i \in 1..Len(v.shape) : v.strides[i] = v.itemsize * Prod(Before(v.shape, i))

\* every address the view reads lies inside its buffer
InBuffer(bs, v) ==
  /\ v.buf \in 1..Len(bs)
  /\ \A idx \in Indices(v.shape) :
       /\ Address(v, idx) >= 0
       /\ Address(v, idx) + v.itemsize <= Len(bs[v.buf]) * v.itemsize

\* C1: every in-range call ravel(row_index, col_index, n_rows, n_cols)
\* returns row_index * n_cols + col_index, and the five calls of the assert
\* statements return 11, 19, 0, 15 and 69318923.
C1_RavelIsRowTimesColsPlusCol ==
  out.fn = "ravel" =>
    /\ out.val = PyInt(out.args[1] * out.args[4] + out.args[2])
    /\ out.args \in RavelTests => out.val = PyInt(RavelExpected(out.args))

\* C2: unravel(ravel(multi_index, shape), shape) is multi_index, for every
\* shape of positive dimensions and every in-range multi_index.
C2_UnravelInvertsRavel ==
  out.fn = "roundtrip" =>
    out.val = PyTuple(<<out.args[1], out.args[2]>>)

\* the shape or strides s reordered by the axis order perm (0-based axes)
Permute(s, perm) == [i \in 1..Len(s) |-> s[perm[i] + 1]]

\* the axis order of a call: the one passed, or all axes reversed
OrderOf(arg, rank) ==
  IF arg = <<>> THEN [i \in 1..rank |-> rank - i] ELSE arg

C4_TransposedReadsSource ==
  \A k \in MadeBy("transpose") :
    LET v == views[prov[k].src]
        t == views[k]
    IN /\ InBuffer(bufs, t)
       /\ \A idx \in Indices(v.shape) :
            Elem(bufs, t, Reverse(idx)) = Elem(bufs, v, idx)
       /\ (v.shape = <<2, 3>> /\ RowMajor(v) /\ v.offset = 0
             /\ bufs[v.buf] = <<1, 2, 3, 4, 5, 6>>)
          => /\ t.shape = <<3, 2>>
             /\ Elem(bufs, t, <<0, 0>>) = 1 /\ Elem(bufs, t, <<0, 1>>) = 4
             /\ Elem(bufs, t, <<1, 0>>) = 2 /\ Elem(bufs, t, <<1, 1>>) = 5
             /\ Elem(bufs, t, <<2, 0>>) = 3 /\ Elem(bufs, t, <<2, 1>>) = 6

\* the (2,3) array 1..6 and its transpose are both alive
C4_Witness ==
  \E k \in MadeBy("transpose") :
    /\ views[prov[k].src].shape = <<2, 3>>
    /\ prov[prov[k].src].op = "allocate"
    /\ views[k].shape = <<3, 2>>
    /\ Elem(bufs, views[k], <<2, 1>>) = 6

\* the reshapes of the run whose source view is laid out row-major
ReshapesOfRowMajor ==
  {k \in MadeBy("reshape") : RowMajor(views[prov[k].src])}

\* C5: reshape of a row-major-contiguous view to any new_shape with the same
\* number of elements succeeds and returns a view over the same buffer whose
\* strides are the row-major strides of new_shape and whose row-major
\* traversal is the source's.
C5_ReshapeOfRowMajorIsAView ==
  /\ \A k \in ReshapesOfRowMajor :
       LET v == views[prov[k].src]
           r == views[k]
       IN /\ r.shape = prov[k].arg
          /\ r.buf = v.buf
          /\ RowMajor(r)
          /\ InBuffer(bufs, r)
          /\ Traverse(bufs, r) = Traverse(bufs, v)
  /\ (last.op = "reshape" /\ last.err # "")
       => Prod(last.arg) # Prod(views[last.src].shape)
  /\ (last.op = "reshape" /\ last.err = "")
       => /\ Prod(last.arg) = Prod(views[last.src].shape)
          /\ last.res = Len(views)
          /\ prov[last.res] = Origin("reshape", last.src, last.arg)

\* the (2,3) array is reshaped to (3,2)
C5_Witness ==
  \E k \in ReshapesOfRowMajor :
    /\ views[prov[k].src].shape = <<2, 3>>
    /\ views[k].shape = <<3, 2>>
    /\ views[k].strides = <<16, 8>>
    /\ views[k].buf = views[prov[k].src].buf

\* the leading dimensions of new_shape can make up the first axis of t
Compatible(t, newshape) ==
  \E n \in 0..Len(newshape) : Prod(SubSeq(newshape, 1, n)) = t.shape[1]

\* the reshapes of the run applied to the transpose of a row-major 2-D view
\* with distinct dimensions
ReshapesOfTransposed ==
  {k \in MadeBy("reshape") :
     /\ prov[prov[k].src].op = "transpose"
     /\ LET v == views[prov[prov[k].src].src]
        IN /\ Len(v.shape) = 2
           /\ RowMajor(v)
           /\ v.shape[1] # v.shape[2]}

\* the result r of reshaping t is a copy: a buffer no earlier view reads,
\* row-major over the new shape, holding t's elements in row-major order
IsFreshCopy(k, t) ==
  LET r == views[k]
  IN /\ \A j \in 1..k - 1 : views[j].buf # r.buf
     /\ r.offset = 0
     /\ RowMajor(r)
     /\ Len(bufs[r.buf]) = Prod(r.shape)
     /\ Traverse(bufs, r) = Traverse(bufs, t)
     /\ bufs[r.buf] = Traverse(bufs, t)

\* C6 (as claimed): every reshape of the transpose of a 2-D row-major view
\* with distinct dimensions returns a view over a new buffer, row-major over
\* the new shape, holding the row-major traversal of the transposed array.
C6_ReshapeOfTransposedCopies ==
  \A k \in ReshapesOfTransposed : IsFreshCopy(k, views[prov[k].src])

\* C6 (amended): a reshape of the transpose of a 2-D row-major view with
\* distinct dimensions returns such a copy when the new shape is
\* incompatible with the transposed view's strides, that is when no leading
\* run of the new shape's dimensions has the transposed view's first
\* dimension as its product; otherwise it returns a view of the same buffer
\* with the same traversal.  For the buffer 1..6 viewed as (2,3), transpose
\* then reshape to (2,3) yields [[1,4,2],[5,3,6]] and the original buffer
\* still holds 1..6.
C6_ReshapeOfTransposedCopiesIfIncompatible ==
  \A k \in ReshapesOfTransposed :
    LET t == views[prov[k].src]
        v == views[prov[prov[k].src].src]
        r == views[k]
    IN /\ r.shape = prov[k].arg
       /\ IF Compatible(t, r.shape)
          THEN /\ r.buf = t.buf
               /\ InBuffer(bufs, r)
               /\ Traverse(bufs, r) = Traverse(bufs, t)
          ELSE IsFreshCopy(k, t)
       /\ (v.shape = <<2, 3>> /\ prov[prov[prov[k].src].src].op = "allocate"
             /\ r.shape = <<2, 3>>)
          => /\ bufs[r.buf] = <<1, 4, 2, 5, 3, 6>>
             /\ r.strides = <<24, 8>>
             /\ r.buf # v.buf
             /\ bufs[v.buf] = <<1, 2, 3, 4, 5, 6>>

\* the (2,3) array 1..6 was transposed and the transpose reshaped to (2,3)
C6_Witness ==
  \E k \in ReshapesOfTransposed :
    /\ views[prov[prov[k].src].src].shape = <<2, 3>>
    /\ views[k].shape = <<2, 3>>
    /\ Traverse(bufs, views[k]) = <<1, 4, 2, 5, 3, 6>>
    /\ views[k].buf # views[prov[k].src].buf

\* the index of the source view that element k of a slice reads
SliceIndex(ranges, k) ==
  [i \in 1..Len(k) |-> ranges[i][1] + k[i] * ranges[i][3]]

\* the views of the run that are copies: made by materialize, or by a reshape
\* that had to copy (its result reads another buffer than its source, or it
\* reshaped a transposed 2-D view to a shape incompatible with its strides)
Copies ==
  MadeBy("materialize")
    \cup {k \in MadeBy("reshape") : views[k].buf # views[prov[k].src].buf}
    \cup {k \in ReshapesOfTransposed :
            ~Compatible(views[prov[k].src], views[k].shape)}

\* C7: a view returned by slice aliases its source's buffer: a value written
\* through the slice at index k is read through the source at
\* start + k * step, and a value written through the source at such an index
\* is read through the slice at k; a copy (made by materialize or by a
\* copying reshape) keeps its elements when its source's buffer is written.
C7_SliceAliasesCopiesDoNot ==
  [][(last'.op = "write" /\ nwrites' # nwrites) =>
       LET w == last'.src
           idx == last'.arg[1]
           val == last'.arg[2]
       IN /\ views' = views
          /\ Elem(bufs', views[w], idx) = val
          /\ \A s \in MadeBy("slice") :
               LET v == prov[s].src
                   rg == prov[s].arg
               IN /\ views[s].buf = views[v].buf
                  /\ w = s => Elem(bufs', views[v], SliceIndex(rg, idx)) = val
                  /\ w = v =>
                       \A k \in Indices(views[s].shape) :
                         SliceIndex(rg, k) = idx => Elem(bufs', views[s], k) = val
          /\ \A c \in Copies :
               (c # w /\ views[w].buf = views[prov[c].src].buf)
                 => Traverse(bufs', views[c]) = Traverse(bufs, views[c])]_vars

\* a slice with a start and a step was written through, the value is read
\* through the array it was cut from, and a copy of that array kept its
\* elements
C7_Witness ==
  /\ last.op = "write"
  /\ prov[last.src].op = "slice"
  /\ \E i \in 1..Len(prov[last.src].arg) :
       prov[last.src].arg[i][1] > 0 /\ prov[last.src].arg[i][3] > 1
  /\ Elem(bufs, views[prov[last.src].src],
          SliceIndex(prov[last.src].arg, last.arg[1])) = last.arg[2]
  /\ \E c \in MadeBy("materialize") :
       /\ prov[c].src = prov[last.src].src
       /\ \A idx \in Indices(views[c].shape) :
            Elem(bufs, views[c], idx) # last.arg[2]

\* C8: materialize(view) returns, for every layout of the view, a view over
\* a fresh buffer that is row-major-contiguous with the input's shape and
\* holds at every multi-index the input's element; the existing views and
\* buffers are unchanged.
C8_MaterializeCopiesRowMajor ==
  [][last'.op = "materialize" =>
       LET u == views[last'.src]
           c == views'[last'.res]
       IN /\ last'.err = ""
          /\ last'.res = Len(views) + 1
          /\ Len(views') = Len(views) + 1
          /\ \A k \in 1..Len(views) : views'[k] = views[k]
          /\ \A b \in 1..Len(bufs) : bufs'[b] = bufs[b]
          /\ c.buf = Len(bufs) + 1
          /\ Len(bufs') = Len(bufs) + 1
          /\ \A k \in 1..Len(views) : views[k].buf # c.buf
          /\ Len(bufs'[c.buf]) = Prod(c.shape)
          /\ c.shape = u.shape
          /\ c.offset = 0
          /\ c.itemsize = u.itemsize
          /\ RowMajor(c)
          /\ InBuffer(bufs', c)
          /\ \A idx \in Indices(u.shape) :
               Elem(bufs', c, idx) = Elem(bufs, u, idx)]_vars

\* a view that is not row-major (a transpose or a slice) was materialized
C8_Witness ==
  /\ last.op = "materialize"
  /\ ~RowMajor(views[last.src])
  /\ prov[last.src].op \in {"transpose", "slice"}
  /\ Len(views[last.src].shape) = 2
  /\ Prod(views[last.src].shape) >= 4
  /\ RowMajor(views[last.res])
  /\ bufs[views[last.res].buf] # bufs[views[last.src].buf]

\* C9: every view made by any sequence of allocate, transpose, slice,
\* reshape and materialize reads, at every in-range multi-index, an address
\* inside its buffer.
C9_AddressesInBuffer ==
  \A k \in 1..Len(views) : InBuffer(bufs, views[k])

\* a view that starts inside the buffer and steps over elements reads the
\* buffer's last element
C9_Witness ==
  \E k \in MadeBy("slice") :
    /\ views[k].offset > 0
    /\ \E i \in 1..Len(views[k].shape) :
         views[k].strides[i] > views[prov[k].src].strides[i]
    /\ \E idx \in Indices(views[k].shape) :
         Address(views[k], idx) + views[k].itemsize
           = Len(bufs[views[k].buf]) * views[k].itemsize
    /\ prov[prov[k].src].op = "transpose"

\* the number of layout states a view is in: row-major-contiguous,
\* column-major-contiguous, non-contiguous
LayoutStates(v) ==
  Cardinality({st \in {"row", "col", "non"} :
     \/ st = "row" /\ RowMajor(v)
     \/ st = "col" /\ ColMajor(v)
     \/ st = "non" /\ ~RowMajor(v) /\ ~ColMajor(v)})

\* the axes of a view longer than 1
LongAxes(v) == {i \in 1..Len(v.shape) : v.shape[i] > 1}

\* C10 (as claimed): every view, 1-D views and views with a dimension of
\* size 1 included, is in exactly one of the three layout states.
C10_ExactlyOneLayout ==
  \A k \in 1..Len(views) : LayoutStates(views[k]) = 1

\* C10 (amended): a view with two or more dimensions of size greater than 1
\* is in exactly one of the three layout states, by the stride formulas and
\* by the C_CONTIGUOUS / F_CONTIGUOUS flags alike; a row-major-contiguous
\* 1-D view is column-major-contiguous as well, and by the flags so is every
\* row-major-contiguous view with at most one dimension greater than 1.
C10_OneLayoutWhenTwoLongAxes ==
  \A k \in 1..Len(views) :
    LET v == views[k]
    IN /\ Cardinality(LongAxes(v)) >= 2 =>
            /\ LayoutStates(v) = 1
            /\ ~(C_CONTIGUOUS(v) /\ F_CONTIGUOUS(v))
       /\ Len(v.shape) = 1 => (RowMajor(v) <=> ColMajor(v))
       /\ (Len(v.shape) = 1 /\ RowMajor(v)) => LayoutStates(v) = 2
       /\ Cardinality(LongAxes(v)) <= 1 => (C_CONTIGUOUS(v) <=> F_CONTIGUOUS(v))
       /\ RowMajor(v) => C_CONTIGUOUS(v)
       /\ ColMajor(v) => F_CONTIGUOUS(v)

\* a 1-D view in both states next to a transposed (3,2) view that is
\* column-major only
C10_Witness ==
  /\ \E k \in 1..Len(views) :
       Len(views[k].shape) = 1 /\ RowMajor(views[k]) /\ ColMajor(views[k])
  /\ \E k \in MadeBy("transpose") :
       /\ views[k].shape = <<3, 2>>
       /\ ColMajor(views[k]) /\ ~RowMajor(views[k])
       /\ F_CONTIGUOUS(views[k]) /\ ~C_CONTIGUOUS(views[k])

\* the operations that return a view
ViewOps == {"allocate", "transpose", "reshape", "slice", "materialize"}

\* a step that failed left every view, every buffer and the record of the
\* views as they were: nothing was added, nothing was changed
NothingChanged ==
  /\ views' = views
  /\ bufs' = bufs
  /\ prov' = prov

\* a step that succeeded added one view that reads inside its buffer and
\* left the earlier views and buffers as they were
ReturnedValidView ==
  /\ Len(views') = Len(views) + 1
  /\ last'.res = Len(views')
  /\ InBuffer(bufs', views'[last'.res])
  /\ \A k \in 1..Len(views) : views'[k] = views[k]
  /\ \A b \in 1..Len(bufs) : bufs'[b] = bufs[b]

C12_OutOfBoundsExactlyWhenOutside ==
  /\ out.fn = "ravel" =>
       /\ out.val = PyRaise("OutOfBounds")
            <=> ~InRange(<<out.args[1], out.args[2]>>, <<out.args[3], out.args[4]>>)
       /\ out.val.kind # "int"
            <=> ~InRange(<<out.args[1], out.args[2]>>, <<out.args[3], out.args[4]>>)
  /\ out.fn = "index" =>
       /\ out.val = PyRaise("OutOfBounds")
            <=> ~InRange(out.args[2], views[out.args[1]].shape)
       /\ out.val.kind # "int"
            <=> ~InRange(out.args[2], views[out.args[1]].shape)
  /\ out.fn = "unravel" =>
       /\ out.val = PyRaise("OutOfBounds")
            <=> (out.args[1] < 0 \/ out.args[1] >= Prod(out.args[2]))
       /\ out.val.kind # "tuple"
            <=> (out.args[1] < 0 \/ out.args[1] >= Prod(out.args[2]))

\* C13: the transpose of a row-major-contiguous view is
\* column-major-contiguous and the transpose of a column-major-contiguous
\* view is row-major-contiguous, by the stride formulas and by the
\* C_CONTIGUOUS / F_CONTIGUOUS flags alike; the transpose of a
\* row-major-contiguous 2-D view with both dimensions greater than 1 is not
\* row-major-contiguous; transposing twice gives back the shape and strides.
C13_TransposeSwapsLayout ==
  \A k \in MadeBy("transpose") :
    LET v == views[prov[k].src]
        t == views[k]
    IN /\ RowMajor(v) => ColMajor(t)
       /\ ColMajor(v) => RowMajor(t)
       /\ C_CONTIGUOUS(v) => F_CONTIGUOUS(t)
       /\ F_CONTIGUOUS(v) => C_CONTIGUOUS(t)
       /\ (RowMajor(v) /\ Len(v.shape) = 2 /\ v.shape[1] > 1 /\ v.shape[2] > 1)
            => (~RowMajor(t) /\ ~C_CONTIGUOUS(t))
       /\ transpose(t).shape = v.shape
       /\ transpose(t).strides = v.strides

\* a (2,3) array was transposed into a column-major view and that view
\* transposed back into a row-major one
C13_Witness ==
  \E k \in MadeBy("transpose") :
    /\ prov[prov[k].src].op = "transpose"
    /\ views[prov[k].src].shape = <<3, 2>>
    /\ ColMajor(views[prov[k].src])
    /\ ~RowMajor(views[prov[k].src])
    /\ views[k].shape = <<2, 3>>
    /\ RowMajor(views[k])

\* the views of the run that read the six elements 1..6 of the (2,3) array's
\* buffer through shape (2,3), every address inside the buffer
ViewsOfSix ==
  {k \in 1..Len(views) :
     /\ views[k].shape = <<2, 3>>
     /\ bufs[views[k].buf] = <<1, 2, 3, 4, 5, 6>>
     /\ InBuffer(bufs, views[k])}

\* C14: over the buffer [1,2,3,4,5,6] no byte_offset and no pair of strides,
\* of any sign or zero, that keeps every address inside the buffer makes a
\* view of shape (2,3) read [[1,4,2],[5,3,6]]: what transpose-then-reshape
\* yields cannot be had without a copy.
C14_NoStridesReadTransposedOrder ==
  \A k \in ViewsOfSix :
    /\ Traverse(bufs, views[k]) # <<1, 4, 2, 5, 3, 6>>
    /\ ~(/\ Elem(bufs, views[k], <<0, 0>>) = 1
         /\ Elem(bufs, views[k], <<0, 1>>) = 4
         /\ Elem(bufs, views[k], <<0, 2>>) = 2)

\* a (2,3) view over 1..6 that starts at the last element and walks
\* backwards reads another order of the six elements
C14_Witness ==
  \E k \in ViewsOfSix :
    /\ prov[k].op = "as_strided"
    /\ views[k].offset = 5 * ItemSize
    /\ views[k].strides = <<(0 - 3) * ItemSize, (0 - 1) * ItemSize>>
    /\ Traverse(bufs, views[k]) = <<6, 5, 4, 3, 2, 1>>

\* C15: as_strided of an n-element 1-D array with shape (n, m) and strides
\* (element_size, 0) reads buffer element i at every index [i, j]: over
\* [1,2,3,4,5], a[0, j] = 1 and a[3, j] = 4 for every j; every address lies
\* inside the n-element buffer, whatever m is.
C15_ZeroStrideRepeatsRows ==
  \A k \in MadeBy("as_strided") :
    LET a == views[prov[k].src]
        shape == prov[k].arg[1]
        strides == prov[k].arg[2]
        n == Len(bufs[a.buf])
        b == views[k]
    IN (/\ Len(a.shape) = 1
        /\ a.offset = 0
        /\ shape[1] = n
        /\ strides = <<a.itemsize, 0>>)
       => /\ b.shape = shape
          /\ InBuffer(bufs, b)
          /\ \A idx \in Indices(shape) :
               /\ Elem(bufs, b, idx) = bufs[a.buf][idx[1] + 1]
               /\ index(b, idx) = PyInt(a.itemsize * idx[1])
               /\ Address(b, idx) + b.itemsize <= n * b.itemsize
          /\ (bufs[a.buf] = <<1, 2, 3, 4, 5>>) =>
               \A j \in 0..shape[2] - 1 :
                 Elem(bufs, b, <<0, j>>) = 1 /\ Elem(bufs, b, <<3, j>>) = 4

\* the array [1,2,3,4,5] is read as 5 rows of 3 columns, each row repeating
\* one element
C15_Witness ==
  \E k \in MadeBy("as_strided") :
    /\ prov[prov[k].src].op = "allocate"
    /\ bufs[views[k].buf] = <<1, 2, 3, 4, 5>>
    /\ views[k].shape = <<5, 3>>
    /\ views[k].strides = <<ItemSize, 0>>
    /\ Elem(bufs, views[k], <<3, 2>>) = 4
    /\ Elem(bufs, views[k], <<0, 1>>) = 1

\* the strides of a view returned by allocate are the canonical row-major
\* ones, the view is row-major-contiguous and starts at byte 0, and its
\* in-bounds multi-indices map one to one onto the element addresses of the
\* buffer
AllocatedIsCanonical(v) ==
  /\ v.offset = 0
  /\ v.strides[Len(v.shape)] = v.itemsize
  /\ \A i \in 1..Len(v.shape) - 1 : v.strides[i] = v.strides[i + 1] * v.shape[i + 1]
  /\ RowMajor(v)
  /\ C_CONTIGUOUS(v)
  /\ CStrides(<<4, 8>>, 8) = <<64, 8>>
  /\ \A idx \in Indices(v.shape) : index(v, idx) = PyInt(Address(v, idx))
  /\ \A i1, i2 \in Indices(v.shape) : Address(v, i1) = Address(v, i2) => i1 = i2
  /\ {Address(v, idx) : idx \in Indices(v.shape)}
       = {v.itemsize * e : e \in 0..Len(bufs[v.buf]) - 1}

\* C16: a view returned by allocate(shape, element_size) has the canonical
\* row-major strides ((64, 8) for shape (4,8) and element_size 8), is
\* row-major-contiguous, and for every in-bounds multi_index
\* index(view, multi_index) = element_size * ravel(multi_index, shape), so
\* that distinct multi-indices have distinct addresses covering the buffer
\* exactly.
C16_AllocateIndexIsItemSizeTimesRavel ==
  \A k \in MadeBy("allocate") :
    LET v == views[k]
    IN /\ AllocatedIsCanonical(v)
       /\ Len(v.shape) = 2 =>
            \A idx \in Indices(v.shape) :
              index(v, idx)
                = TimesItemSize(v.itemsize,
                                ravel(idx[1], idx[2], v.shape[1], v.shape[2]))

\* the part of C16 that does not go through ravel
C16_AllocateIsCanonical ==
  \A k \in MadeBy("allocate") : AllocatedIsCanonical(views[k])

====
